---- MODULE Spec2Model ----
(***************************************************************************)
(* A model of the sliding-tile solver of src/solver.py                     *)
(* (SlidingPuzzleAStar): A* over N x N boards with the summed Manhattan    *)
(* distance as baseline heuristic, father's rule with bubble-up applied    *)
(* after every expansion, and a partial result keyed on the lowest h seen  *)
(* at a pop.                                                               *)
(*                                                                         *)
(* A board is a tuple of N*N integers, 0 for the blank.  Python's 0-based  *)
(* positions are kept: position p of the source is element p+1 here.       *)
(*                                                                         *)
(* Spec is one solve() call, step by step.  DriverSpec is the auto-solve   *)
(* driver of src/app.py: the request handlers and the run_solver thread,   *)
(* each solve() call of the thread taken as one step (solve, SolveLoop).   *)
(***************************************************************************)
EXTENDS Integers, Sequences, FiniteSets, TLC

\* ---------------------------------------------------------------- bounds
\* Initial boards are those at most MaxDepth slides away from the goal, and
\* from the goal with tiles 1 and 2 exchanged (the component of the boards
\* from which the goal cannot be reached).
MaxDepth == 6
\* max_expansions ranges over 0..MaxBudget.
MaxBudget == 8
\* On the 2 x 2 board max_expansions ranges over 0..MaxBudgetSmall: the board
\* six slides from the goal is solved with a budget of 12 and no less.
MaxBudgetSmall == 12

\* The requests to the driver make puzzles at most DriverDepth slides from
\* the goal.
DriverDepth == 2

\* The board sizes N explored.
Sizes == {2, 3}

\* Python's None (the parent of the initial heap entry).
None == <<>>

\* An empty dict.
EmptyDict == <<>>

VARIABLES
    size,                \* self.size
    initial_state,       \* self.initial_state
    max_expansions,      \* self.max_expansions
    h_dict,              \* self.h_dict : state -> current heuristic value
    open_list,           \* the heap, entries <<f, g, state, parent>>
    came_from,           \* state -> parent
    g_scores,            \* state -> best g found so far
    expansions,          \* number of expansions performed
    best_h_node_so_far,  \* <<h_value, g_value, state, parent>>
    current,             \* the entry popped by the running iteration
    queue,               \* apply_fathers_rule_bubble_up: work queue
    visited,             \* apply_fathers_rule_bubble_up: visited set
    path,                \* returned path (<<>> until solve() returns)
    solved,              \* returned flag
    pc,                  \* position of solve(): "init", "loop", "bubble",
                         \* "reinsert", "done", or "error"/"hang" for a
                         \* raised exception / a reconstruction that never ends
    \* ---- src/app.py: the auto-solve driver
    puzzle_state,        \* global puzzle_state
    puzzle_size,         \* global puzzle_size
    is_solving,          \* global is_solving
    init_params,         \* the keywords SlidingPuzzleAStar.__init__ takes
    rs,                  \* thread -> the frame of its run_solver call
    last_update,         \* the puzzle of the latest solver_update event
    stopped              \* history: stop_auto_solve has cleared is_solving
                         \* and auto_solve has started no thread since

\* The variables of the solver and those of the driver.
svars == <<size, initial_state, max_expansions, h_dict, open_list, came_from,
           g_scores, expansions, best_h_node_so_far, current, queue, visited,
           path, solved, pc>>

dvars == <<puzzle_state, puzzle_size, is_solving, init_params, rs,
           last_update, stopped>>

vars == <<size, initial_state, max_expansions, h_dict, open_list, came_from,
          g_scores, expansions, best_h_node_so_far, current, queue, visited,
          path, solved, pc, puzzle_state, puzzle_size, is_solving,
          init_params, rs, last_update, stopped>>

\* The threads that run run_solver: one that is running and one started
\* beside it.
Threads == {1, 2}

\* The parameters of SlidingPuzzleAStar.__init__ (solver.py, line 14).
SrcInitParams == {"initial_state", "size", "max_expansions"}

\* The keywords of the call of run_solver (app.py, lines 240-245).
CallKeywords ==
    {"initial_state", "size", "max_expansions", "use_heuristic_adjustment"}

\* The frame of a thread that was not started, or has ended.  updates and
\* solves are history fields: the solver_update events the thread sent and
\* the solve calls it started since stop_auto_solve cleared is_solving.
NoFrame ==
    [pc |-> "none", max_expansions |-> 0, use_heuristic_adjustment |-> FALSE,
     current_state |-> <<>>, size |-> 0, path |-> <<>>, solved |-> FALSE,
     idx |-> 0, message |-> "", updates |-> 0, solves |-> 0]

\* app.py as loaded (lines 18-21): no puzzle yet, no thread.
DriverIdle ==
    /\ puzzle_state = <<>>
    /\ puzzle_size = 4
    /\ is_solving = FALSE
    /\ init_params = SrcInitParams
    /\ rs = [t \in Threads |-> NoFrame]
    /\ last_update = <<>>
    /\ stopped = FALSE

\* ------------------------------------------------------- board and moves
\* self.goal_state = tuple(range(1, size * size)) + (0,)
goal_state(n) == [i \in 1..(n * n) |-> IF i = n * n THEN 0 ELSE i]

\* state.index(v), 0-based
index(state, v) == (CHOOSE i \in 1..Len(state) : state[i] = v) - 1

\* swap: positions i and j (0-based) exchanged
swap(state, i, j) ==
    [k \in 1..Len(state) |-> IF k = i + 1 THEN state[j + 1]
                             ELSE IF k = j + 1 THEN state[i + 1]
                             ELSE state[k]]

\* get_neighbors whose right move tests the end of the board instead of the
\* end of the row.
get_neighbors_wrap(state, n) ==
    LET blank_index == index(state, 0)
        r == blank_index \div n
        c == blank_index % n
    IN  (IF r > 0 THEN <<swap(state, blank_index, blank_index - n)>> ELSE <<>>)
     \o (IF r < n - 1 THEN <<swap(state, blank_index, blank_index + n)>> ELSE <<>>)
     \o (IF c > 0 THEN <<swap(state, blank_index, blank_index - 1)>> ELSE <<>>)
     \o (IF blank_index < n * n - 1 THEN <<swap(state, blank_index, blank_index + 1)>> ELSE <<>>)

\* get_neighbors: up, down, left, right of the blank, in this order
get_neighbors(state, n) ==
    LET blank_index == index(state, 0)
        r == blank_index \div n
        c == blank_index % n
    IN  (IF r > 0 THEN <<swap(state, blank_index, blank_index - n)>> ELSE <<>>)
     \o (IF r < n - 1 THEN <<swap(state, blank_index, blank_index + n)>> ELSE <<>>)
     \o (IF c > 0 THEN <<swap(state, blank_index, blank_index - 1)>> ELSE <<>>)
     \o (IF c < n - 1 THEN <<swap(state, blank_index, blank_index + 1)>> ELSE <<>>)

abs(x) == IF x < 0 THEN -x ELSE x

\* The term of one tile in baseline_manhattan (idx is 0-based).
TileDistance(idx, tile, n) ==
    IF tile # 0
    THEN abs((idx \div n) - ((tile - 1) \div n)) + abs((idx % n) - ((tile - 1) % n))
    ELSE 0

RECURSIVE ManhattanFrom(_, _, _)
ManhattanFrom(state, n, idx) ==
    IF idx >= Len(state) THEN 0
    ELSE TileDistance(idx, state[idx + 1], n) + ManhattanFrom(state, n, idx + 1)

\* baseline_manhattan: summed Manhattan distance of the tiles
baseline_manhattan(state, n) == ManhattanFrom(state, n, 0)

\* dict[key] = value
Put(dict, key, value) ==
    [k \in (DOMAIN dict) \cup {key} |-> IF k = key THEN value ELSE dict[k]]


\* --------------------------------------------------------------- the heap
\* Python's ordering of two tuples of integers of one length.
RECURSIVE TupleLess(_, _, _)
TupleLess(a, b, i) ==
    IF i > Len(a) \/ i > Len(b) THEN Len(a) < Len(b)
    ELSE IF a[i] # b[i] THEN a[i] < b[i]
    ELSE TupleLess(a, b, i + 1)

\* Two heap entries whose comparison reaches the parents with exactly one of
\* them None: Python raises TypeError on None < tuple.
Incomparable(a, b) ==
    /\ a[1] = b[1] /\ a[2] = b[2] /\ a[3] = b[3]
    /\ a[4] # b[4]
    /\ (a[4] = None \/ b[4] = None)

\* a < b on heap entries (f, g, state, parent), as Python compares tuples.
EntryLess(a, b) ==
    IF a[1] # b[1] THEN a[1] < b[1]
    ELSE IF a[2] # b[2] THEN a[2] < b[2]
    ELSE IF a[3] # b[3] THEN TupleLess(a[3], b[3], 1)
    ELSE IF a[4] = None \/ b[4] = None THEN FALSE
    ELSE TupleLess(a[4], b[4], 1)

\* heapq.heappush(open_list, entry)
heappush(heap, entry) == Append(heap, entry)

\* A pop of the greatest entry instead of the least.
MinIndex_Max(heap) ==
    CHOOSE i \in 1..Len(heap) :
        \A j \in 1..Len(heap) :
            j # i => (EntryLess(heap[j], heap[i]) \/ (~EntryLess(heap[i], heap[j]) /\ i < j))

\* The position of the entry heapq.heappop returns: a least one.
MinIndex(heap) ==
    CHOOSE i \in 1..Len(heap) :
        \A j \in 1..Len(heap) :
            j # i => (EntryLess(heap[i], heap[j]) \/ (~EntryLess(heap[j], heap[i]) /\ i < j))

\* heapq.heappop(open_list): the entry, and the heap without it
heappop(heap) ==
    LET i == MinIndex(heap)
    IN  [entry |-> heap[i],
         rest  |-> [k \in 1..(Len(heap) - 1) |-> IF k < i THEN heap[k] ELSE heap[k + 1]]]

\* A sift of the heap may compare two entries that Python cannot order.
HeapRaises(heap) ==
    \E i, j \in 1..Len(heap) : i < j /\ Incomparable(heap[i], heap[j])

\* ---------------------------------------------------------- father's rule
\* The lookup without the baseline as default: an unknown neighbour counts
\* as infinitely far.
NbrH_KnownOnly(h, nbr, n) == IF nbr \in DOMAIN h THEN h[nbr] ELSE 1000000

\* self.h_dict.get(nbr, self.baseline_manhattan(nbr))
NbrH(h, nbr, n) == IF nbr \in DOMAIN h THEN h[nbr] ELSE baseline_manhattan(nbr, n)

Min(S) == CHOOSE x \in S : \A y \in S : x <= y

\* fathers_rule_once(s): the heuristic store afterwards and the returned flag
fathers_rule_once(h, s, n) ==
    LET h_s == h[s]
        nbrs == get_neighbors(s, n)
        hs == {NbrH(h, nbrs[i], n) : i \in 1..Len(nbrs)}
        all_bigger == \A i \in 1..Len(nbrs) : ~(NbrH(h, nbrs[i], n) < h_s + 1)
    IN  IF nbrs = <<>> THEN [h |-> h, changed |-> FALSE]
        ELSE IF all_bigger /\ Min(hs) + 1 > h_s
             THEN [h |-> [h EXCEPT ![s] = Min(hs) + 1], changed |-> TRUE]
             ELSE [h |-> h, changed |-> FALSE]

\* The known neighbours of a state, in get_neighbors order (lines 138-140).
KnownNeighbors(h, s, n) == SelectSeq(get_neighbors(s, n), LAMBDA nbr : nbr \in DOMAIN h)

\* The while loop of apply_fathers_rule_bubble_up run to its end (lines
\* 124-140): the heuristic store once the work queue q is empty.
RECURSIVE BubbleUp(_, _, _, _)
BubbleUp(h, q, vis, n) ==
    IF q = <<>> THEN h
    ELSE LET state == Head(q)
             rule == fathers_rule_once(h, state, n)
         IN  IF state \in vis THEN BubbleUp(h, Tail(q), vis, n)
             ELSE BubbleUp(rule.h,
                           IF rule.changed
                           THEN Tail(q) \o KnownNeighbors(rule.h, state, n)
                           ELSE Tail(q),
                           vis \cup {state}, n)

\* apply_fathers_rule_bubble_up(s) as one call: the store it leaves.
apply_fathers_rule_bubble_up(h, s, n) == BubbleUp(h, <<s>>, {}, n)

\* ---------------------------------------------------- path reconstruction
\* _reconstruct_path: follow came_from from end_state, then reverse.  fuel
\* bounds the walk; a walk that outlives it is on a cycle and never returns.
RECURSIVE WalkBack(_, _, _)
WalkBack(end_state, cf, fuel) ==
    IF end_state \notin DOMAIN cf THEN <<end_state>>
    ELSE IF fuel = 0 THEN <<>>
    ELSE LET rest == WalkBack(cf[end_state], cf, fuel - 1)
         IN  IF rest = <<>> THEN <<>> ELSE Append(rest, end_state)

\* _reconstruct_path without path.reverse().
RECURSIVE WalkBackUnreversed(_, _, _)
WalkBackUnreversed(end_state, cf, fuel) ==
    IF end_state \notin DOMAIN cf THEN <<end_state>>
    ELSE IF fuel = 0 THEN <<>>
    ELSE LET rest == WalkBackUnreversed(cf[end_state], cf, fuel - 1)
         IN  IF rest = <<>> THEN <<>> ELSE <<end_state>> \o rest

reconstruct_path_unreversed(end_state, cf) ==
    WalkBackUnreversed(end_state, cf, Cardinality(DOMAIN cf))

reconstruct_path(end_state, cf) == WalkBack(end_state, cf, Cardinality(DOMAIN cf))

\* _reconstruct_partial_path(best_h_node, came_from)
reconstruct_partial_path(best_h_node, cf) == reconstruct_path(best_h_node[3], cf)


\* ------------------------------------------------------- the boards explored
\* The goal with tiles 1 and 2 exchanged: a board of the other component,
\* from which no sequence of slides reaches the goal.
TwistedGoal(n) == [i \in 1..(n * n) |-> IF i = 1 THEN 2 ELSE IF i = 2 THEN 1
                                          ELSE IF i = n * n THEN 0 ELSE i]

\* The boards one slide away from s: the blank exchanged with the tile of an
\* orthogonally adjacent cell (cells are 1..n*n here, row by row).
Adjacent(i, j, n) ==
    abs(((i - 1) \div n) - ((j - 1) \div n)) + abs(((i - 1) % n) - ((j - 1) % n)) = 1

Slides(s, n) ==
    LET b == CHOOSE i \in 1..(n * n) : s[i] = 0
    IN  {[k \in 1..(n * n) |-> IF k = b THEN s[j] ELSE IF k = j THEN 0 ELSE s[k]] :
            j \in {c \in 1..(n * n) : Adjacent(b, c, n)}}

NeighborSet(S, n) == UNION {Slides(s, n) : s \in S}

\* Layers(n, root, maxd)[d + 1] is the set of boards exactly d slides from
\* root.  A slide can be undone and changes the parity of the blank's cell,
\* so the boards one slide from layer d are in layer d - 1 or in layer d + 1.
RECURSIVE LayersFrom(_, _, _)
LayersFrom(n, layers, maxd) ==
    IF Len(layers) > maxd THEN layers
    ELSE LET k == Len(layers)
             before == IF k = 1 THEN {} ELSE layers[k - 1]
         IN  LayersFrom(n, Append(layers, NeighborSet(layers[k], n) \ before), maxd)

Layers(n, root, maxd) == LayersFrom(n, <<{root}>>, maxd)

\* Every board a run discovers lies within MaxLayer slides of the root of
\* its component: the initial one within MaxDepth, a discovered one at most
\* MaxBudget further (its g is at most the number of expansions).
MaxLayer == MaxDepth + MaxBudget

GoalLayers == [n \in Sizes |-> Layers(n, goal_state(n), MaxLayer)]

TwistedLayers == [n \in Sizes |-> Layers(n, TwistedGoal(n), MaxLayer)]

\* The boards from which the goal is reachable / unreachable, as far as explored.
SolvableBoards == [n \in Sizes |-> UNION {GoalLayers[n][d] : d \in 1..(MaxLayer + 1)}]

UnsolvableBoards == [n \in Sizes |-> UNION {TwistedLayers[n][d] : d \in 1..(MaxLayer + 1)}]

Solvable(n) == SolvableBoards[n]

Unsolvable(n) == UnsolvableBoards[n]

\* The least number of slides from a solvable board to the goal.
TrueDistance(s, n) == (CHOOSE d \in 1..(MaxLayer + 1) : s \in GoalLayers[n][d]) - 1

InitialStates(n) ==
    UNION {GoalLayers[n][d] \cup TwistedLayers[n][d] : d \in 1..(MaxDepth + 1)}

\* The budgets explored for boards of size n.
Budgets(n) == IF n = 2 THEN 0..MaxBudgetSmall ELSE 0..MaxBudget

\* ------------------------------------------------------------------- Init
\* The state after SlidingPuzzleAStar(initial_state, size, max_expansions).
Init ==
    /\ size \in Sizes
    /\ initial_state \in InitialStates(size)
    /\ max_expansions \in Budgets(size)
    /\ h_dict = EmptyDict
    /\ open_list = <<>>
    /\ came_from = EmptyDict
    /\ g_scores = EmptyDict
    /\ expansions = 0
    /\ best_h_node_so_far = <<0, 0, initial_state, None>>
    /\ current = <<0, 0, initial_state, None>>
    /\ queue = <<>>
    /\ visited = {}
    /\ path = <<>>
    /\ solved = FALSE
    /\ pc = "init"
    /\ DriverIdle


\* ------------------------------------------------------------ solve()
\* heuristic(state): memoise the baseline on first use; the store afterwards.
heuristic(h, state, n) ==
    IF state \notin DOMAIN h THEN Put(h, state, baseline_manhattan(state, n)) ELSE h

\* The for loop storing the baseline of every neighbour, known or not.
RECURSIVE ExpandNeighbors_Reset(_, _, _, _, _, _)
ExpandNeighbors_Reset(nbrs, i, acc, g_current, current_state, n) ==
    IF i > Len(nbrs) THEN acc
    ELSE LET nbr == nbrs[i]
             h1 == Put(acc.h, nbr, baseline_manhattan(nbr, n))
             g_next == g_current + 1
             better == (nbr \notin DOMAIN acc.g) \/ (g_next < acc.g[nbr])
             f_next == g_next + h1[nbr]
         IN  ExpandNeighbors_Reset(nbrs, i + 1,
                 [h |-> h1,
                  g |-> IF better THEN Put(acc.g, nbr, g_next) ELSE acc.g,
                  open |-> IF better
                           THEN heappush(acc.open, <<f_next, g_next, nbr, current_state>>)
                           ELSE acc.open],
                 g_current, current_state, n)

\* The for loop without the test on g_scores: every neighbour is pushed.
RECURSIVE ExpandNeighbors_NoGCheck(_, _, _, _, _, _)
ExpandNeighbors_NoGCheck(nbrs, i, acc, g_current, current_state, n) ==
    IF i > Len(nbrs) THEN acc
    ELSE LET nbr == nbrs[i]
             h1 == IF nbr \notin DOMAIN acc.h
                   THEN Put(acc.h, nbr, baseline_manhattan(nbr, n))
                   ELSE acc.h
             g_next == g_current + 1
             f_next == g_next + h1[nbr]
         IN  ExpandNeighbors_NoGCheck(nbrs, i + 1,
                 [h |-> h1,
                  g |-> Put(acc.g, nbr, g_next),
                  open |-> heappush(acc.open, <<f_next, g_next, nbr, current_state>>)],
                 g_current, current_state, n)

\* The for loop over the neighbours of the popped state (lines 91-99):
\* acc holds h_dict, g_scores and open_list after the neighbours before i.
RECURSIVE ExpandNeighbors(_, _, _, _, _, _)
ExpandNeighbors(nbrs, i, acc, g_current, current_state, n) ==
    IF i > Len(nbrs) THEN acc
    ELSE LET nbr == nbrs[i]
             h1 == IF nbr \notin DOMAIN acc.h
                   THEN Put(acc.h, nbr, baseline_manhattan(nbr, n))
                   ELSE acc.h
             g_next == g_current + 1
             better == (nbr \notin DOMAIN acc.g) \/ (g_next < acc.g[nbr])
             f_next == g_next + h1[nbr]
         IN  ExpandNeighbors(nbrs, i + 1,
                 [h |-> h1,
                  g |-> IF better THEN Put(acc.g, nbr, g_next) ELSE acc.g,
                  open |-> IF better
                           THEN heappush(acc.open, <<f_next, g_next, nbr, current_state>>)
                           ELSE acc.open],
                 g_current, current_state, n)

\* return p, flag: a reconstruction caught on a cycle never returns.
Return(p, flag) ==
    IF p = <<>>
    THEN /\ pc' = "hang"
         /\ UNCHANGED <<path, solved>>
    ELSE /\ pc' = "done"
         /\ path' = p
         /\ solved' = flag

\* solve() without the early return of lines 38-39.
SolveStart_NoEarlyReturn ==
    /\ pc = "init"
    /\ LET h1 == heuristic(h_dict, initial_state, size)
           init_h == h1[initial_state]
       IN  /\ h_dict' = h1
           /\ g_scores' = Put(EmptyDict, initial_state, 0)
           /\ open_list' = heappush(<<>>, <<init_h, 0, initial_state, None>>)
           /\ came_from' = EmptyDict
           /\ expansions' = 0
           /\ best_h_node_so_far' = <<init_h, 0, initial_state, None>>
           /\ pc' = "loop"
           /\ UNCHANGED <<path, solved>>
    /\ UNCHANGED <<size, initial_state, max_expansions, current, queue, visited>>
    /\ UNCHANGED dvars

\* Lines 37-58: the early return on the goal, or the initialisation.
SolveStart ==
    /\ pc = "init"
    /\ IF initial_state = goal_state(size)
       THEN /\ Return(<<initial_state>>, TRUE)
            /\ UNCHANGED <<h_dict, open_list, came_from, g_scores, expansions,
                           best_h_node_so_far>>
       ELSE LET h1 == heuristic(h_dict, initial_state, size)
                init_h == h1[initial_state]
            IN  /\ h_dict' = h1
                /\ g_scores' = Put(EmptyDict, initial_state, 0)
                /\ open_list' = heappush(<<>>, <<init_h, 0, initial_state, None>>)
                /\ came_from' = EmptyDict
                /\ expansions' = 0
                /\ best_h_node_so_far' = <<init_h, 0, initial_state, None>>
                /\ pc' = "loop"
                /\ UNCHANGED <<path, solved>>
    /\ UNCHANGED <<size, initial_state, max_expansions, current, queue, visited>>
    /\ UNCHANGED dvars

\* UpdateBest with the comparison turned round.
UpdateBest_Greater(best, cur_h, entry) ==
    IF cur_h > best[1] THEN <<cur_h, entry[2], entry[3], entry[4]>> ELSE best

\* UpdateBest with <= for <.
UpdateBest_OrEqual(best, cur_h, entry) ==
    IF cur_h <= best[1] THEN <<cur_h, entry[2], entry[3], entry[4]>> ELSE best

\* best_h_node_so_far after a pop (lines 69-71).
UpdateBest(best, cur_h, entry) ==
    IF cur_h < best[1] THEN <<cur_h, entry[2], entry[3], entry[4]>> ELSE best

\* The early stop with > for >=.
BudgetReached_Strict(done, budget) == done > budget

\* The early stop of line 77.
BudgetReached(done, budget) == done >= budget

\* One iteration of the main loop up to the call of the updater (lines
\* 60-102), or the exit of the loop on an empty open list (lines 111-114).
Pop ==
    /\ pc = "loop"
    /\ IF open_list = <<>>
       THEN /\ Return(reconstruct_partial_path(best_h_node_so_far, came_from), FALSE)
            /\ UNCHANGED <<h_dict, open_list, came_from, g_scores, expansions,
                           best_h_node_so_far, current, queue, visited>>
       ELSE LET popped == heappop(open_list)
                entry == popped.entry
                f_current == entry[1]
                g_current == entry[2]
                current_state == entry[3]
                parent_state == entry[4]
                cf1 == IF parent_state # None /\ current_state \notin DOMAIN came_from
                       THEN Put(came_from, current_state, parent_state)
                       ELSE came_from
                cur_h == h_dict[current_state]
                best1 == UpdateBest(best_h_node_so_far, cur_h, entry)
            IN  /\ current' = entry
                /\ came_from' = cf1
                /\ best_h_node_so_far' = best1
                /\ IF BudgetReached(expansions, max_expansions)
                   THEN /\ Return(reconstruct_partial_path(best1, cf1), FALSE)
                        /\ open_list' = popped.rest
                        /\ UNCHANGED <<h_dict, g_scores, expansions, queue, visited>>
                   ELSE /\ expansions' = expansions + 1
                        /\ IF current_state = goal_state(size)
                           THEN /\ Return(reconstruct_path(current_state, cf1), TRUE)
                                /\ open_list' = popped.rest
                                /\ UNCHANGED <<h_dict, g_scores, queue, visited>>
                           ELSE LET acc == ExpandNeighbors(
                                               get_neighbors(current_state, size), 1,
                                               [h |-> h_dict, g |-> g_scores,
                                                open |-> popped.rest],
                                               g_current, current_state, size)
                                IN  /\ h_dict' = acc.h
                                    /\ g_scores' = acc.g
                                    /\ open_list' = acc.open
                                    /\ queue' = <<current_state>>
                                    /\ visited' = {}
                                    /\ pc' = IF HeapRaises(acc.open) THEN "error"
                                             ELSE "bubble"
                                    /\ UNCHANGED <<path, solved>>
    /\ UNCHANGED <<size, initial_state, max_expansions>>
    /\ UNCHANGED dvars

\* The work queue without visited.add(state).
BubbleStep_NoVisited ==
    /\ pc = "bubble"
    /\ queue # <<>>
    /\ LET state == Head(queue)
           rule == fathers_rule_once(h_dict, state, size)
       IN  IF state \in visited
           THEN /\ queue' = Tail(queue)
                /\ UNCHANGED <<visited, h_dict>>
           ELSE /\ UNCHANGED visited
                /\ h_dict' = rule.h
                /\ queue' = IF rule.changed
                            THEN Tail(queue) \o KnownNeighbors(rule.h, state, size)
                            ELSE Tail(queue)
    /\ UNCHANGED <<size, initial_state, max_expansions, open_list, came_from,
                   g_scores, expansions, best_h_node_so_far, current, path,
                   solved, pc>>
    /\ UNCHANGED dvars

\* One iteration of the work queue of apply_fathers_rule_bubble_up
\* (lines 124-140).
BubbleStep ==
    /\ pc = "bubble"
    /\ queue # <<>>
    /\ LET state == Head(queue)
           rule == fathers_rule_once(h_dict, state, size)
       IN  IF state \in visited
           THEN /\ queue' = Tail(queue)
                /\ UNCHANGED <<visited, h_dict>>
           ELSE /\ visited' = visited \cup {state}
                /\ h_dict' = rule.h
                /\ queue' = IF rule.changed
                            THEN Tail(queue) \o KnownNeighbors(rule.h, state, size)
                            ELSE Tail(queue)
    /\ UNCHANGED <<size, initial_state, max_expansions, open_list, came_from,
                   g_scores, expansions, best_h_node_so_far, current, path,
                   solved, pc>>
    /\ UNCHANGED dvars

\* The updater returns on an empty queue; the popped state is pushed again
\* when its h was raised (lines 104-109).
Reinsert ==
    /\ pc = "bubble"
    /\ queue = <<>>
    /\ LET f_current == current[1]
           g_current == current[2]
           current_state == current[3]
           parent_state == current[4]
           new_h == h_dict[current_state]
           new_f == g_current + new_h
           open1 == IF new_f > f_current
                    THEN heappush(open_list, <<new_f, g_current, current_state, parent_state>>)
                    ELSE open_list
       IN  /\ open_list' = open1
           /\ pc' = IF HeapRaises(open1) THEN "error" ELSE "loop"
    /\ UNCHANGED <<size, initial_state, max_expansions, h_dict, came_from,
                   g_scores, expansions, best_h_node_so_far, current, queue,
                   visited, path, solved>>
    /\ UNCHANGED dvars

\* ------------------------------------------------- solve() as one call
\* The main loop of solve() run to its return (lines 60-114), as the caller
\* sees it: st holds h_dict, open_list, came_from, g_scores, expansions and
\* best_h_node_so_far before a pop.  adjust is FALSE only for the engine
\* run without its updater.
RECURSIVE SolveLoop(_, _, _, _)
SolveLoop(st, n, budget, adjust) ==
    IF st.open = <<>>
    THEN [path |-> reconstruct_partial_path(st.best, st.cf), solved |-> FALSE]
    ELSE LET popped == heappop(st.open)
             entry == popped.entry
             f_current == entry[1]
             g_current == entry[2]
             current_state == entry[3]
             parent_state == entry[4]
             cf1 == IF parent_state # None /\ current_state \notin DOMAIN st.cf
                    THEN Put(st.cf, current_state, parent_state)
                    ELSE st.cf
             best1 == UpdateBest(st.best, st.h[current_state], entry)
             acc == ExpandNeighbors(get_neighbors(current_state, n), 1,
                                    [h |-> st.h, g |-> st.g, open |-> popped.rest],
                                    g_current, current_state, n)
             h2 == IF adjust
                   THEN apply_fathers_rule_bubble_up(acc.h, current_state, n)
                   ELSE acc.h
             new_f == g_current + h2[current_state]
             open2 == IF new_f > f_current
                      THEN heappush(acc.open,
                                    <<new_f, g_current, current_state, parent_state>>)
                      ELSE acc.open
         IN  IF BudgetReached(st.exp, budget)
             THEN [path |-> reconstruct_partial_path(best1, cf1), solved |-> FALSE]
             ELSE IF current_state = goal_state(n)
             THEN [path |-> reconstruct_path(current_state, cf1), solved |-> TRUE]
             ELSE SolveLoop([h |-> h2, open |-> open2, cf |-> cf1, g |-> acc.g,
                             exp |-> st.exp + 1, best |-> best1],
                            n, budget, adjust)

\* SlidingPuzzleAStar(initial, n, budget).solve(): the returned pair.
solve(initial, n, budget, adjust) ==
    IF initial = goal_state(n)
    THEN [path |-> <<initial>>, solved |-> TRUE]
    ELSE LET init_h == baseline_manhattan(initial, n)
         IN  SolveLoop([h |-> Put(EmptyDict, initial, init_h),
                        open |-> heappush(<<>>, <<init_h, 0, initial, None>>),
                        cf |-> EmptyDict,
                        g |-> Put(EmptyDict, initial, 0),
                        exp |-> 0,
                        best |-> <<init_h, 0, initial, None>>],
                       n, budget, adjust)

\* The call as one step and the call step by step return the same pair.
SolveAgrees ==
    pc = "done" =>
        solve(initial_state, size, max_expansions, TRUE)
            = [path |-> path, solved |-> solved]

Next == SolveStart \/ Pop \/ BubbleStep \/ Reinsert

Spec == Init /\ [][Next]_vars

\* ------------------------------------------------- src/app.py: the driver
\* The board sizes and the budgets the requests to the driver carry.
DriverSizes == {2}

DriverBudgets == {0, 2}

\* The puzzles the requests to the driver make: the boards at most
\* DriverDepth slides from the goal, and one board from which the goal
\* cannot be reached.
DriverBoards(n) ==
    UNION {GoalLayers[n][d] : d \in 1..(DriverDepth + 1)} \cup {TwistedGoal(n)}

\* The keywords of the engine the call of run_solver is written for: the
\* one whose enable-update flag the caller sets.
SpecInitParams == SrcInitParams \cup {"use_heuristic_adjustment"}

\* The lists set_state accepts for size n: the numbers 0..n*n-1, each once.
Boards(n) ==
    {b \in [1..(n * n) -> 0..(n * n - 1)] :
        \A i, j \in 1..(n * n) : i # j => b[i] # b[j]}

\* count_inversions(puzzle)
count_inversions(puzzle) ==
    Cardinality({ij \in (1..Len(puzzle)) \X (1..Len(puzzle)) :
                    /\ ij[1] < ij[2]
                    /\ puzzle[ij[1]] # 0 /\ puzzle[ij[2]] # 0
                    /\ puzzle[ij[1]] > puzzle[ij[2]]})

\* is_solvable(puzzle, n)
is_solvable(puzzle, n) ==
    LET inv == count_inversions(puzzle)
        hole_row_from_top == index(puzzle, 0) \div n
        row_of_blank_from_bottom == n - hole_row_from_top
    IN  IF n % 2 = 1 THEN inv % 2 = 0
        ELSE \/ (row_of_blank_from_bottom % 2 = 0 /\ inv % 2 = 1)
             \/ (row_of_blank_from_bottom % 2 = 1 /\ inv % 2 = 0)

\* generate_solvable_puzzle(n): any shuffle that is_solvable accepts.
generate_solvable_puzzle(n) == {b \in Boards(n) : is_solvable(b, n)}

\* The driver once a first POST /api/new has made a puzzle; the class of
\* the solver either as solver.py declares it or with the flag the caller
\* passes.  The variables of the solver are not used.
DriverInit ==
    /\ puzzle_size \in DriverSizes
    /\ puzzle_state \in generate_solvable_puzzle(puzzle_size) \cap DriverBoards(puzzle_size)
    /\ is_solving = FALSE
    /\ init_params \in {SrcInitParams, SpecInitParams}
    /\ rs = [t \in Threads |-> NoFrame]
    /\ last_update = <<>>
    /\ stopped = FALSE
    /\ size = 2
    /\ initial_state = goal_state(2)
    /\ max_expansions = 0
    /\ h_dict = EmptyDict
    /\ open_list = <<>>
    /\ came_from = EmptyDict
    /\ g_scores = EmptyDict
    /\ expansions = 0
    /\ best_h_node_so_far = <<0, 0, goal_state(2), None>>
    /\ current = <<0, 0, goal_state(2), None>>
    /\ queue = <<>>
    /\ visited = {}
    /\ path = <<>>
    /\ solved = FALSE
    /\ pc = "init"

\* A thread that is not running: not started yet, returned, or ended by
\* an exception.
NotRunning(t) == rs[t].pc \in {"none", "ended", "TypeError"}

\* POST /api/auto_solve (lines 166-175): a request made while is_solving
\* is set changes nothing; otherwise the flag is set and a new thread is
\* started, whether or not an earlier thread is still inside run_solver.
\* The new thread is thread 1 when no thread is running and thread 2 when
\* thread 1 is; the request that starts thread 2 repeats the arguments of
\* the request that started thread 1.
auto_solve ==
    /\ ~is_solving
    /\ \E me \in DriverBudgets, flag \in BOOLEAN, t \in Threads :
          /\ NotRunning(t)
          /\ \A u \in Threads : u < t <=> ~NotRunning(u)
          /\ \A u \in Threads : ~NotRunning(u) =>
                /\ me = rs[u].max_expansions
                /\ flag = rs[u].use_heuristic_adjustment
          /\ rs' = [rs EXCEPT ![t] = [NoFrame EXCEPT
                                         !.pc = "while",
                                         !.max_expansions = me,
                                         !.use_heuristic_adjustment = flag]]
    /\ is_solving' = TRUE
    /\ stopped' = FALSE
    /\ UNCHANGED <<puzzle_state, puzzle_size, init_params, last_update>>
    /\ UNCHANGED svars

\* POST /api/stop_auto_solve (lines 177-181).
stop_auto_solve ==
    /\ ~stopped
    /\ is_solving' = FALSE
    /\ stopped' = TRUE
    /\ rs' = [t \in Threads |-> [rs[t] EXCEPT !.updates = 0, !.solves = 0]]
    /\ UNCHANGED <<puzzle_state, puzzle_size, init_params, last_update>>
    /\ UNCHANGED svars

\* POST /api/move (lines 101-130) with a tile next to the hole.
move_tile ==
    /\ \E tile_to_move \in 1..(puzzle_size * puzzle_size - 1) :
          LET tile_idx == index(puzzle_state, tile_to_move)
              hole_idx == index(puzzle_state, 0)
          IN  /\ abs((tile_idx \div puzzle_size) - (hole_idx \div puzzle_size))
                   + abs((tile_idx % puzzle_size) - (hole_idx % puzzle_size)) = 1
              /\ swap(puzzle_state, tile_idx, hole_idx) \in DriverBoards(puzzle_size)
              /\ puzzle_state' = swap(puzzle_state, tile_idx, hole_idx)
    /\ UNCHANGED <<puzzle_size, is_solving, init_params, rs, last_update, stopped>>
    /\ UNCHANGED svars

\* POST /api/new (lines 132-160).
new_puzzle ==
    /\ \E new_size \in DriverSizes :
          /\ puzzle_size' = new_size
          /\ puzzle_state' \in generate_solvable_puzzle(new_size) \cap DriverBoards(new_size)
    /\ UNCHANGED <<is_solving, init_params, rs, last_update, stopped>>
    /\ UNCHANGED svars

\* POST /api/set_state (lines 183-218) with a list that passes validation.
set_state ==
    /\ \E new_state \in Boards(puzzle_size) \cap DriverBoards(puzzle_size) :
          puzzle_state' = new_state
    /\ UNCHANGED <<puzzle_size, is_solving, init_params, rs, last_update, stopped>>
    /\ UNCHANGED svars

\* run_solver, line 235: the test of the while loop.
While(t) ==
    /\ rs[t].pc = "while"
    /\ rs' = [rs EXCEPT ![t].pc = IF is_solving THEN "construct" ELSE "finish"]
    /\ UNCHANGED <<puzzle_state, puzzle_size, is_solving, init_params,
                   last_update, stopped>>
    /\ UNCHANGED svars

\* SlidingPuzzleAStar(**keywords) raises TypeError on a keyword that
\* __init__ does not take.
Constructs(keywords, params) == keywords \subseteq params

\* The construction that starts from the last state of the path shown
\* before instead of the snapshot of puzzle_state.
Construct_StaleSnapshot(t) ==
    /\ rs[t].pc = "construct"
    /\ rs' = [rs EXCEPT ![t] =
                 IF Constructs(CallKeywords, init_params)
                 THEN [@ EXCEPT !.pc = "solve",
                                !.current_state =
                                    IF rs[t].path # <<>>
                                    THEN rs[t].path[Len(rs[t].path)]
                                    ELSE puzzle_state,
                                !.size = puzzle_size,
                                !.solves = IF stopped /\ @ < 2 THEN @ + 1 ELSE @]
                 ELSE [NoFrame EXCEPT !.pc = "TypeError"]]
    /\ UNCHANGED <<puzzle_state, puzzle_size, is_solving, init_params,
                   last_update, stopped>>
    /\ UNCHANGED svars

\* Lines 237-245: the snapshot of the puzzle and the construction of the
\* solver; the TypeError ends the thread, is_solving stays as it is.
Construct(t) ==
    /\ rs[t].pc = "construct"
    /\ rs' = [rs EXCEPT ![t] =
                 IF Constructs(CallKeywords, init_params)
                 THEN [@ EXCEPT !.pc = "solve",
                                !.current_state = puzzle_state,
                                !.size = puzzle_size,
                                !.solves = IF stopped /\ @ < 2 THEN @ + 1 ELSE @]
                 ELSE [NoFrame EXCEPT !.pc = "TypeError"]]
    /\ UNCHANGED <<puzzle_state, puzzle_size, is_solving, init_params,
                   last_update, stopped>>
    /\ UNCHANGED svars

\* Line 248: solver.solve() returns.
Solve(t) ==
    /\ rs[t].pc = "solve"
    /\ LET r == solve(rs[t].current_state, rs[t].size, rs[t].max_expansions,
                      rs[t].use_heuristic_adjustment)
       IN  rs' = [rs EXCEPT ![t].pc = "check",
                            ![t].path = r.path,
                            ![t].solved = r.solved]
    /\ UNCHANGED <<puzzle_state, puzzle_size, is_solving, init_params,
                   last_update, stopped>>
    /\ UNCHANGED svars

\* The test of line 256.
NoProgress(p, use_heuristic_adjustment) ==
    Len(p) <= 1 /\ ~use_heuristic_adjustment

\* Lines 256-260: the report of no progress, or the start of the for loop.
Check(t) ==
    /\ rs[t].pc = "check"
    /\ IF NoProgress(rs[t].path, rs[t].use_heuristic_adjustment)
       THEN /\ is_solving' = FALSE
            /\ rs' = [rs EXCEPT
                         ![t].pc = "finish",
                         ![t].message = "No progress possible (partial or unsolvable)."]
       ELSE /\ rs' = [rs EXCEPT ![t].pc = "for", ![t].idx = 0]
            /\ UNCHANGED is_solving
    /\ UNCHANGED <<puzzle_state, puzzle_size, init_params, last_update, stopped>>
    /\ UNCHANGED svars

\* The for loop without the test of is_solving.
For_NoStopTest(t) ==
    /\ rs[t].pc = "for"
    /\ rs' = [rs EXCEPT ![t].pc = IF rs[t].idx >= Len(rs[t].path) THEN "after"
                                  ELSE "emit"]
    /\ UNCHANGED <<puzzle_state, puzzle_size, is_solving, init_params,
                   last_update, stopped>>
    /\ UNCHANGED svars

\* Lines 265-268: the next state of the path, if any, and the test of
\* is_solving before it is shown.
For(t) ==
    /\ rs[t].pc = "for"
    /\ rs' = [rs EXCEPT ![t].pc = IF rs[t].idx >= Len(rs[t].path) THEN "after"
                                  ELSE IF ~is_solving THEN "after"
                                  ELSE "emit"]
    /\ UNCHANGED <<puzzle_state, puzzle_size, is_solving, init_params,
                   last_update, stopped>>
    /\ UNCHANGED svars

\* Lines 270-291: the puzzle takes the state, solver_update is sent, and on
\* the last state of a solved path solver_complete as well.
Emit(t) ==
    /\ rs[t].pc = "emit"
    /\ LET state == rs[t].path[rs[t].idx + 1]
           last == (rs[t].idx = Len(rs[t].path) - 1) /\ rs[t].solved
           n == IF stopped /\ rs[t].updates < 2 THEN rs[t].updates + 1
                ELSE rs[t].updates
       IN  /\ puzzle_state' = state
           /\ last_update' = state
           /\ is_solving' = IF last THEN FALSE ELSE is_solving
           /\ rs' = [rs EXCEPT ![t].pc = IF last THEN "after" ELSE "sleep",
                                ![t].message = IF last THEN "Puzzle solved!" ELSE @,
                                ![t].updates = n]
    /\ UNCHANGED <<puzzle_size, init_params, stopped>>
    /\ UNCHANGED svars

\* Line 294: time.sleep(0.25), then the next turn of the for loop.
Sleep(t) ==
    /\ rs[t].pc = "sleep"
    /\ rs' = [rs EXCEPT ![t].pc = "for", ![t].idx = @ + 1]
    /\ UNCHANGED <<puzzle_state, puzzle_size, is_solving, init_params,
                   last_update, stopped>>
    /\ UNCHANGED svars

\* Lines 296-305: leave the while loop when stopped or solved, else go round.
After(t) ==
    /\ rs[t].pc = "after"
    /\ rs' = [rs EXCEPT ![t].pc = IF ~is_solving THEN "finish"
                                  ELSE IF rs[t].solved THEN "finish"
                                  ELSE "while"]
    /\ UNCHANGED <<puzzle_state, puzzle_size, is_solving, init_params,
                   last_update, stopped>>
    /\ UNCHANGED svars

\* Line 308: is_solving = False, and run_solver returns.
Finish(t) ==
    /\ rs[t].pc = "finish"
    /\ is_solving' = FALSE
    /\ rs' = [rs EXCEPT ![t] = [NoFrame EXCEPT !.pc = "ended"]]
    /\ UNCHANGED <<puzzle_state, puzzle_size, init_params, last_update, stopped>>
    /\ UNCHANGED svars

\* The schedules explored: a thread started beside a running one stays at
\* the entry of run_solver until the older thread has left it.
Scheduled(t) == \A u \in Threads : u < t => NotRunning(u)

run_solver(t) ==
    \/ While(t) \/ Construct(t) \/ Solve(t) \/ Check(t) \/ For(t)
    \/ Emit(t) \/ Sleep(t) \/ After(t) \/ Finish(t)

DriverNext ==
    \/ auto_solve
    \/ stop_auto_solve
    \/ move_tile
    \/ new_puzzle
    \/ set_state
    \/ \E t \in Threads : Scheduled(t) /\ run_solver(t)

DriverSpec == DriverInit /\ [][DriverNext]_vars




\* ---------------------------------------------------------------- claims
Returned == pc = "done"

LastState == path[Len(path)]

\* C1: the returned flag is true if and only if the returned path ends in
\* the goal state.
C1_SolvedIffGoal ==
    Returned => (solved <=> LastState = goal_state(size))

\* C2: every stored heuristic value is at most the true least number of
\* slides to the goal (the goal's own value stays 0); every discovered board
\* is one of known distance or one of the component without the goal.
C2_Admissible ==
    \A s \in DOMAIN h_dict :
        IF s \in Solvable(size) THEN h_dict[s] <= TrueDistance(s, size)
        ELSE s \in Unsolvable(size)

\* A board from which the goal is reachable has had its h raised above the
\* baseline while the goal itself is in the store.
C2_Witness ==
    /\ goal_state(size) \in DOMAIN h_dict
    /\ \E s \in DOMAIN h_dict :
          s \in Solvable(size) /\ h_dict[s] > baseline_manhattan(s, size)

\* C3: a path returned with solved = true has as many slides as the true
\* least distance from the initial state to the goal.
C3_Optimal ==
    (Returned /\ solved) =>
        /\ initial_state \in Solvable(size)
        /\ Len(path) - 1 = TrueDistance(initial_state, size)

\* A solution of at least three slides was returned by a call in which the
\* updater raised some h.
C3_Witness ==
    /\ Returned /\ solved /\ Len(path) >= 4
    /\ \E s \in DOMAIN h_dict : h_dict[s] > baseline_manhattan(s, size)

\* C4: every returned path is non-empty and starts with the initial state.
C4_StartsAtInitial ==
    Returned => (path # <<>> /\ path[1] = initial_state)

\* A partial path of more than one state was returned.
C4_Witness == Returned /\ ~solved /\ Len(path) >= 2 /\ path[1] = initial_state

\* Two boards one legal slide apart: they differ in exactly two cells, which
\* are orthogonally adjacent, and the blank is in one of them in each board.
LegalSlide(a, b, n) ==
    LET D == {i \in 1..(n * n) : a[i] # b[i]}
    IN  /\ Cardinality(D) = 2
        /\ \E i, j \in D :
              /\ i # j
              /\ a[i] = 0 /\ b[j] = 0 /\ a[j] = b[i]
              /\ abs(((i - 1) \div n) - ((j - 1) \div n))
                   + abs(((i - 1) % n) - ((j - 1) % n)) = 1

\* C5: consecutive states of a returned path are one legal slide apart.
C5_LegalSlides ==
    Returned => \A k \in 1..(Len(path) - 1) : LegalSlide(path[k], path[k + 1], size)

\* A returned path of at least three states on a 3 x 3 board.
C5_Witness == Returned /\ size = 3 /\ Len(path) >= 3

\* The states popped so far: the initial one and those with a recorded parent.
Popped == {initial_state} \cup DOMAIN came_from

\* C6 (as claimed): when solved = false the last state of the path has the
\* least current h of all discovered states.
C6_LowestDiscovered ==
    (Returned /\ ~solved) => \A s \in DOMAIN h_dict : h_dict[LastState] <= h_dict[s]

\* C6 (amended): when solved = false the last state of the path is the state
\* of best_h_node_so_far, it was popped, and the h recorded for it when it
\* was popped is at most the current h of every popped state.
C6_LowestPopped ==
    (Returned /\ ~solved) =>
        /\ LastState = best_h_node_so_far[3]
        /\ LastState \in Popped
        /\ \A s \in Popped : best_h_node_so_far[1] <= h_dict[s]

\* A partial result whose last state is not of least h among the discovered.
C6_Witness ==
    /\ Returned /\ ~solved /\ Len(path) >= 2
    /\ \E s \in DOMAIN h_dict : h_dict[s] < h_dict[LastState]

\* C7: the number of expansions never exceeds max_expansions, and a pop
\* made once max_expansions expansions are done returns (solved = false).
C7_Budget ==
    [][/\ expansions' <= max_expansions'
       /\ (pc = "loop" /\ expansions = max_expansions) => (pc' = "done" /\ ~solved')]_vars

\* The budget, not zero, was used up and the call returned.
C7_Witness ==
    Returned /\ ~solved /\ max_expansions > 0 /\ expansions = max_expansions

\* The position of solve() as a number that falls along the control flow.
Stage ==
    CASE pc = "init" -> 3
      [] pc = "bubble" -> 2
      [] pc = "loop" -> 1
      [] OTHER -> 0

\* A measure of the work left: the expansions left in the budget, the
\* position of solve(), the discovered states the running updater has not
\* visited, and the length of its work queue.
Rank ==
    <<max_expansions - expansions, Stage,
      Cardinality((DOMAIN h_dict) \ visited), Len(queue)>>

\* The dictionary reads of the next step find their keys (no KeyError).
KeysPresent ==
    /\ pc = "loop" =>
          \A i \in 1..Len(open_list) : open_list[i][3] \in DOMAIN h_dict
    /\ pc = "bubble" =>
          /\ current[3] \in DOMAIN h_dict
          /\ \A i \in 1..Len(queue) : queue[i] \in DOMAIN h_dict

\* C8: every call returns: solve() is never left by an exception (a heap
\* comparison with None, a missing key) nor caught in an endless path
\* reconstruction, and every step lowers a measure in the well-founded
\* lexicographic order of tuples of naturals, so the main loop and the work
\* queue both finish.
C8_Terminates ==
    /\ [](pc \in {"init", "loop", "bubble", "done"} /\ KeysPresent)
    /\ [](\A k \in 1..4 : Rank[k] >= 0)
    /\ [][TupleLess(Rank', Rank, 1)]_vars

\* A call on a board from which the goal is unreachable has returned after
\* the updater raised some h.
C8_Witness ==
    /\ Returned /\ initial_state \in Unsolvable(size) /\ expansions > 0
    /\ \E s \in DOMAIN h_dict : h_dict[s] > baseline_manhattan(s, size)

\* C9: a stored h never decreases from one step to the next and is never
\* below the baseline Manhattan distance.
C9_Monotone ==
    [][\A s \in DOMAIN h_dict' :
          /\ h_dict'[s] >= baseline_manhattan(s, size)
          /\ (s \in DOMAIN h_dict => h_dict'[s] >= h_dict[s])]_vars

\* The updater is at work and has raised some h by at least 2.
C9_Witness ==
    /\ pc = "bubble"
    /\ \E s \in DOMAIN h_dict : h_dict[s] >= baseline_manhattan(s, size) + 2

\* C10: with the goal as initial state solve() returns ([goal], true)
\* without expanding or discovering any state.
C10_GoalAtOnce ==
    (initial_state = goal_state(size) /\ pc # "init") =>
        /\ Returned /\ solved
        /\ path = <<goal_state(size)>>
        /\ expansions = 0
        /\ h_dict = EmptyDict /\ open_list = <<>>

\* The goal was given with a budget of 0 and the call has returned.
C10_Witness ==
    Returned /\ initial_state = goal_state(size) /\ max_expansions = 0

\* C11: with max_expansions = 1 at most one state is expanded, a returned
\* path has at most two states, and solved = true is returned only if the
\* initial state is the goal or one slide away from it.
C11_BudgetOne ==
    max_expansions = 1 =>
        /\ expansions <= 1
        /\ Returned =>
              /\ Len(path) <= 2
              /\ solved => \/ initial_state = goal_state(size)
                           \/ goal_state(size) \in Slides(initial_state, size)

\* A call with max_expansions = 1 expanded the initial state and returned
\* the path to one of its neighbours.
C11_Witness ==
    Returned /\ max_expansions = 1 /\ expansions = 1 /\ Len(path) = 2

\* C12: when solve() returns solved = false with a path of more than one
\* state, the Manhattan distance of the last state of the path is strictly
\* lower than the Manhattan distance of the initial state.
C12_StrictProgress ==
    (Returned /\ ~solved /\ Len(path) > 1) =>
        baseline_manhattan(LastState, size) < baseline_manhattan(initial_state, size)

\* A partial path of at least two slides was returned by a call in which
\* the updater raised the h of the initial state.
C12_Witness ==
    /\ Returned /\ ~solved /\ Len(path) >= 3
    /\ h_dict[initial_state] > baseline_manhattan(initial_state, size)

\* C13: on the 2 x 2 board, from an initial state from which the goal is
\* reachable, a call returns solved = false only by stopping on its budget,
\* a budget of twice the distance to the goal is enough to complete, and a
\* path returned with solved = true has at most 6 slides (7 states).
C13_SmallBoard ==
    (size = 2 /\ initial_state \in Solvable(2) /\ Returned) =>
        /\ ~solved => expansions = max_expansions
        /\ max_expansions >= 2 * TrueDistance(initial_state, 2) => solved
        /\ solved => Len(path) <= 7

\* The 2 x 2 board six slides from the goal was solved in six slides.
C13_Witness ==
    /\ Returned /\ solved /\ size = 2
    /\ TrueDistance(initial_state, 2) = 6 /\ Len(path) = 7

\* The chain of recorded parents from s back to a state without one, the
\* root first; <<>> when the chain runs into a cycle.
ParentChain(s) == WalkBack(s, came_from, Cardinality(DOMAIN came_from))

\* C15: the recorded parents form a forest rooted at the initial state: the
\* initial state has no parent, and the chain of parents from every state
\* that has one ends, without a cycle, at the initial state.
C15_Forest ==
    /\ initial_state \notin DOMAIN came_from
    /\ \A s \in DOMAIN came_from :
          /\ ParentChain(s) # <<>>
          /\ ParentChain(s)[1] = initial_state
          /\ \A i, j \in 1..Len(ParentChain(s)) :
                i # j => ParentChain(s)[i] # ParentChain(s)[j]

\* Two states share a recorded parent and some chain has three links.
C15_Witness ==
    /\ \E a, b \in DOMAIN came_from : a # b /\ came_from[a] = came_from[b]
    /\ \E s \in DOMAIN came_from : Len(ParentChain(s)) >= 4

C18_Idempotent ==
    (pc = "bubble" /\ queue = <<>>) =>
        apply_fathers_rule_bubble_up(h_dict, current[3], size) = h_dict

\* The f of the entry pushed last for s among the entries still in the open
\* list (heappush appends, heappop keeps the order of what it leaves).  For
\* a state never popped this is the f most recently pushed for it.
last_f(s) ==
    LET I == {i \in 1..Len(open_list) : open_list[i][3] = s}
    IN  open_list[CHOOSE i \in I : \A j \in I : j <= i][1]

\* C17 (as claimed, for the discovered states never popped, whose pushes
\* are all still in the open list): before every pop the f most recently
\* pushed for s is g[s] + h[s]; a state whose h the updater raised has been
\* pushed again with its new f.
C17_LastFCurrent ==
    pc = "loop" =>
        \A s \in (DOMAIN g_scores) \ Popped :
            /\ \E i \in 1..Len(open_list) : open_list[i][3] = s
            /\ last_f(s) = g_scores[s] + h_dict[s]

\* C14 (as claimed): the construction of the solver by the driver, with
\* its use_heuristic_adjustment keyword, succeeds on the class that
\* solver.py declares: no thread is ended by a TypeError.
C14_FlagAccepted ==
    init_params = SrcInitParams => \A t \in Threads : rs[t].pc # "TypeError"

DriverRank(frame) ==
    CASE frame.pc = "construct" -> 9
      [] frame.pc = "solve" -> 8
      [] frame.pc = "check" -> 7
      [] frame.pc = "emit" -> 6
      [] frame.pc = "sleep" -> 5
      [] frame.pc = "for" -> 4
      [] frame.pc = "after" -> 3
      [] frame.pc = "while" -> 2
      [] frame.pc = "finish" -> 1
      [] OTHER -> 0

C22_OneThread ==
    Cardinality({t \in Threads : ~NotRunning(t)}) <= 1

\* C23: with use_heuristic_adjustment off, a round that has shown its whole
\* path and was not solved leaves the puzzle, when no request has changed it
\* since the last solver_update, at a smaller Manhattan distance than the
\* state the round started from (so the rounds of a run are finitely many),
\* and the step by which a thread leaves run_solver leaves is_solving false.
C23_Terminates ==
    /\ [](\A t \in Threads :
            (/\ rs[t].pc = "after"
             /\ ~rs[t].use_heuristic_adjustment
             /\ rs[t].idx = Len(rs[t].path)
             /\ puzzle_state = last_update) =>
                baseline_manhattan(puzzle_state, rs[t].size)
                    < baseline_manhattan(rs[t].current_state, rs[t].size))
    /\ [][\A t \in Threads :
             (/\ ~NotRunning(t)
              /\ ~rs[t].use_heuristic_adjustment
              /\ rs'[t].pc \in {"ended", "TypeError"}) =>
                 ~is_solving']_vars

====
